---- MODULE Spec2Model ----
(***************************************************************************)
(* The calculator server of src/src/server.rs and the parts of its client  *)
(* (src/src/client.rs) that reach it: the recursive evaluator              *)
(* evaluate_impl, the Function capabilities (OperatorImpl, FunctionImpl,   *)
(* the client's PowerFunction), the Value capability (ValueImpl) and the   *)
(* Calculator root (CalculatorImpl).  Every future the evaluator builds is *)
(* one row of `tasks`; one action is one handler invocation or one         *)
(* resumption of a suspended future on the single-threaded executor.       *)
(***************************************************************************)
EXTENDS Integers, Sequences, FiniteSets, TLC

VARIABLES funcs, values, tasks, client

vars == <<funcs, values, tasks, client>>

(***************************************************************************)
(* Bounds of the model.                                                    *)
(***************************************************************************)
MaxLit == 2

(***************************************************************************)
(* f64.  A number is the exact rational n/d in lowest terms with d > 0;    *)
(* d = 0 holds the three non-finite values: 1/0 = +inf, -1/0 = -inf and    *)
(* 0/0 = NaN.  The sign of zero and the rounding of quotients that are not *)
(* exact in binary are not represented.                                    *)
(***************************************************************************)
F(n, d) == [n |-> n, d |-> d]

Abs(x) == IF x < 0 THEN -x ELSE x

Sign(x) == IF x < 0 THEN -1 ELSE IF x > 0 THEN 1 ELSE 0

RECURSIVE Gcd(_, _)
Gcd(a, b) == IF b = 0 THEN a ELSE Gcd(b, a % b)

Norm(n, d) ==
    IF d = 0 THEN F(Sign(n), 0)
    ELSE LET g == Gcd(Abs(n), Abs(d))
         IN  F((Sign(d) * n) \div g, Abs(d) \div g)

Num(i) == F(i, 1)

NaN == F(0, 0)

IsFinite(a) == a.d # 0

FAdd(a, b) ==
    IF a.d = 0 /\ b.d = 0 THEN (IF a.n = b.n THEN a ELSE NaN)
    ELSE IF a.d = 0 THEN a
    ELSE IF b.d = 0 THEN b
    ELSE Norm(a.n * b.d + b.n * a.d, a.d * b.d)

FNeg(a) == F(-a.n, a.d)

FSub(a, b) == FAdd(a, FNeg(b))

FMul(a, b) == Norm(a.n * b.n, a.d * b.d)

FDiv(a, b) == Norm(a.n * b.d, a.d * b.n)

(* a to the power of a natural number: k factors a *)
FPowNat(a, k) == Norm(a.n ^ k, a.d ^ k)

IsInt(a) == a.d = 1

Less(a, b) == a.n * b.d < b.n * a.d

(* f64::powf (client.rs 21), by the cases of IEEE 754 pow.  A finite base  *)
(* above 0 other than 1 with a finite exponent that is no integer has a    *)
(* result this representation cannot hold; no client of the model asks     *)
(* for one.                                                                *)
Powf(a, b) ==
    IF b = Num(0) \/ a = Num(1) THEN Num(1)
    ELSE IF a = NaN \/ b = NaN THEN NaN
    ELSE IF IsInt(b) THEN
        (IF b.n > 0 THEN FPowNat(a, b.n) ELSE FDiv(Num(1), FPowNat(a, -b.n)))
    ELSE IF b.d = 0 THEN
        (IF a = Num(-1) THEN Num(1)
         ELSE IF IsFinite(a) /\ Less(Num(-1), a) /\ Less(a, Num(1))
              THEN (IF b.n > 0 THEN Num(0) ELSE F(1, 0))
              ELSE (IF b.n > 0 THEN F(1, 0) ELSE Num(0)))
    ELSE CASE a = Num(0) -> IF b.n > 0 THEN Num(0) ELSE F(1, 0)
           [] a.d = 0 -> IF b.n > 0 THEN F(1, 0) ELSE Num(0)
           [] IsFinite(a) /\ a.n < 0 -> NaN

(***************************************************************************)
(* capnp::Error and Result<f64, Error>.                                    *)
(***************************************************************************)
Failed(description, a, b) == [description |-> description, a |-> a, b |-> b]

NoError == Failed("", 0, 0)

Ok(v) == [ok |-> TRUE, v |-> v, err |-> NoError]

Err(e) == [ok |-> FALSE, v |-> Num(0), err |-> e]

NoResult == Err(NoError)

(***************************************************************************)
(* calculator::Expression and the capabilities it embeds.                  *)
(***************************************************************************)
Operator == {"Add", "Subtract", "Multiply", "Divide"}

NoFn == [cap |-> "none", id |-> 0]

Fn(i) == [cap |-> "server", id |-> i]

PowerFunction == [cap |-> "PowerFunction", id |-> 0]

NoExpr == [tag |-> "None", v |-> Num(0), ref |-> 0, p |-> 0, function |-> NoFn, params |-> <<>>]

Literal(v) == [NoExpr EXCEPT !.tag = "Literal", !.v = v]

PreviousResult(r) == [NoExpr EXCEPT !.tag = "PreviousResult", !.ref = r]

Parameter(p) == [NoExpr EXCEPT !.tag = "Parameter", !.p = p]

Call(f, ps) == [NoExpr EXCEPT !.tag = "Call", !.function = f, !.params = ps]

None == [some |-> FALSE, list |-> <<>>]

Some(list) == [some |-> TRUE, list |-> list]

OperatorImpl(op) == [kind |-> "Operator", op |-> op, param_count |-> 0, body |-> NoExpr]

FunctionImpl(param_count, body) ==
    [kind |-> "UserDefined", op |-> "", param_count |-> param_count, body |-> body]

(***************************************************************************)
(* Futures.  A row of `tasks` is the promise one evaluate_impl call        *)
(* returned (kind = the tag of its expression), the future of one          *)
(* Calculator.evaluate request (kind "Evaluate"), or a request the client  *)
(* made itself on a capability (kinds "ClientCall" and "Read").  parent is *)
(* the future that awaits it; slot k > 0 makes it the k-th argument of a   *)
(* Call, slot 0 the whole expression of an evaluate or of a function body. *)
(***************************************************************************)
Task(kind, expr, params, parent, slot, state, result) ==
    [kind |-> kind, expr |-> expr, params |-> params, parent |-> parent, slot |-> slot,
     state |-> state, result |-> result,
     function |-> IF kind = "Call" THEN expr.function ELSE NoFn,
     args |-> <<>>, called |-> FALSE,
     ref |-> IF kind = "PreviousResult" THEN expr.ref ELSE 0]

(* Variant: an index with no parameter behind it reads as 0.               *)
ParameterOrZero(p, params) ==
    IF params.some /\ p < Len(params.list) THEN Ok(params.list[p + 1]) ELSE Ok(Num(0))

(* server.rs 40-43: the Parameter arm of evaluate_impl.                    *)
ParameterResult(p, params) ==
    IF params.some /\ p < Len(params.list)
    THEN Ok(params.list[p + 1])
    ELSE Err(Failed("bad parameter: ", p, 0))

(* server.rs 49: the parameter list each argument is evaluated with.       *)
ArgParams(params) == params

RECURSIVE evaluate_impl(_, _, _, _, _)
RECURSIVE SpawnArgs(_, _, _, _, _)

(* server.rs 27-64: the futures evaluate_impl builds before it returns:    *)
(* the node itself and, for a Call, those of all its arguments, which      *)
(* try_join_all collects at once.                                          *)
evaluate_impl(tbl, expression, params, parent, slot) ==
    LET id == Len(tbl) + 1
    IN  CASE expression.tag = "Literal" ->
               Append(tbl, Task("Literal", expression, params, parent, slot,
                                "done", Ok(expression.v)))
          [] expression.tag = "PreviousResult" ->
               Append(tbl, Task("PreviousResult", expression, params, parent, slot,
                                "reading", NoResult))
          [] expression.tag = "Parameter" ->
               Append(tbl, Task("Parameter", expression, params, parent, slot,
                                "done", ParameterResult(expression.p, params)))
          [] expression.tag = "Call" ->
               SpawnArgs(Append(tbl, Task("Call", expression, params, parent, slot,
                                          "joining", NoResult)),
                         expression.params, ArgParams(params), id, 1)

SpawnArgs(tbl, exprs, params, parent, k) ==
    IF k > Len(exprs) THEN tbl
    ELSE SpawnArgs(evaluate_impl(tbl, exprs[k], params, parent, k),
                   exprs, params, parent, k + 1)

Tasks == DOMAIN tasks

Child(t, k) == CHOOSE c \in Tasks : tasks[c].parent = t /\ tasks[c].slot = k

Settled(t) == tasks[t].state = "done"

Succeeded(t) == Settled(t) /\ tasks[t].result.ok

FailedTask(t) == Settled(t) /\ ~tasks[t].result.ok

RECURSIVE Under(_, _)
(* c is awaited, directly or not, by t.                                    *)
Under(c, t) ==
    IF tasks[c].parent = 0 THEN FALSE
    ELSE tasks[c].parent = t \/ Under(tasks[c].parent, t)

(* Variant: a failure drops every future that has not resolved, those of   *)
(* other requests too.                                                     *)
DropAll(tbl, t) ==
    [c \in DOMAIN tbl |->
        IF c \in Tasks /\ c # t /\ tasks[c].state # "done"
        THEN [tbl[c] EXCEPT !.state = "dropped"]
        ELSE tbl[c]]

(* Dropping a future drops the futures it owns.                            *)
Drop(tbl, t) ==
    [c \in DOMAIN tbl |->
        IF c \in Tasks /\ Under(c, t) /\ tasks[c].state # "done"
        THEN [tbl[c] EXCEPT !.state = "dropped"]
        ELSE tbl[c]]

Requests == {t \in Tasks : tasks[t].parent = 0}

(***************************************************************************)
(* The Calculator root capability (CalculatorImpl).                        *)
(***************************************************************************)
(* server.rs 163-173 *)
get_operator(op) ==
    /\ funcs' = Append(funcs, OperatorImpl(op))
    /\ UNCHANGED <<values, tasks>>

(* Variant: a body that is a Parameter at or beyond param_count is refused. *)
def_function_checked(param_count, body) ==
    /\ funcs' = IF body.tag = "Parameter" /\ body.p >= param_count
                THEN funcs
                ELSE Append(funcs, FunctionImpl(param_count, body))
    /\ UNCHANGED <<values, tasks>>

(* Variant: the body is not copied; every FunctionImpl reads its body from *)
(* the message of the latest defFunction.                                  *)
def_function_shared(param_count, body) ==
    /\ funcs' = Append([i \in DOMAIN funcs |->
                           IF funcs[i].kind = "UserDefined"
                           THEN [funcs[i] EXCEPT !.body = body]
                           ELSE funcs[i]],
                       FunctionImpl(param_count, body))
    /\ UNCHANGED <<values, tasks>>

(* Variant: a new function takes the first place among the server's       *)
(* functions, so that the capabilities handed out before name the wrong    *)
(* objects.                                                                *)
def_function_renumbering(param_count, body) ==
    /\ funcs' = <<FunctionImpl(param_count, body)>> \o funcs
    /\ UNCHANGED <<values, tasks>>

(* server.rs 150-162, FunctionImpl::new 71-79 *)
def_function(param_count, body) ==
    /\ funcs' = Append(funcs, FunctionImpl(param_count, body))
    /\ UNCHANGED <<values, tasks>>

Promised == [state |-> "promised", value |-> Num(0), err |-> NoError]

(* Variant: a ValueImpl is made whatever the evaluation returned.          *)
ValueImpl_always(r) == [state |-> "resolved", value |-> r.v, err |-> NoError]

(* server.rs 143-146: `?` returns the failure before any ValueImpl is made; *)
(* otherwise ValueImpl::new(v) (server.rs 11-15) becomes the Value.        *)
ValueImpl_new(r) ==
    IF r.ok THEN [state |-> "resolved", value |-> r.v, err |-> NoError]
    ELSE [state |-> "broken", value |-> Num(0), err |-> r.err]

(* server.rs 137-149, up to the first suspension: the request's future is  *)
(* created, evaluate_impl builds the futures of the expression with no     *)
(* parameter list, and the Value the request will return is a promise.     *)
EvaluateParams == None

evaluate(expression) ==
    LET id == Len(tasks) + 1
        request == [Task("Evaluate", expression, None, 0, 0, "awaiting", NoResult)
                        EXCEPT !.ref = Len(values) + 1]
    IN  /\ tasks' = evaluate_impl(Append(tasks, request), expression, EvaluateParams, id, 0)
        /\ values' = Append(values, Promised)
        /\ UNCHANGED funcs

Finish(t, result) == [tasks EXCEPT ![t].state = "done", ![t].result = result]

(* server.rs 143-147: the expression's future has resolved.                *)
EvaluateDone(t) ==
    /\ tasks[t].kind = "Evaluate" /\ tasks[t].state = "awaiting"
    /\ Settled(Child(t, 0))
    /\ LET r == tasks[Child(t, 0)].result
       IN  /\ tasks' = Finish(t, r)
           /\ values' = [values EXCEPT ![tasks[t].ref] = ValueImpl_new(r)]
    /\ UNCHANGED <<funcs, client>>

(***************************************************************************)
(* Value.read (ValueImpl, server.rs 16-25) answering a read: the one the   *)
(* evaluator sent for a PreviousResult (server.rs 33-39) or one the client *)
(* sent itself.  A read sent to the promised Value of an evaluate that has *)
(* not answered yet waits for that answer; a Value that was never created  *)
(* answers with the failure of its evaluate.                               *)
(***************************************************************************)
(* Variant: a read answers the stored number plus one.                      *)
readNext(v) == IF v.state = "resolved" THEN Ok(FAdd(v.value, Num(1))) ELSE Err(v.err)

(* server.rs 17-24 *)
read(v) == IF v.state = "resolved" THEN Ok(v.value) ELSE Err(v.err)

(* Variant: a read is answered before the evaluate has answered.           *)
ResolvedOrNot(v) == TRUE

(* A read is delivered once the evaluate that promised the Value answered. *)
Resolved(v) == v.state # "promised"

ReadDone(t) ==
    /\ tasks[t].kind \in {"PreviousResult", "Read"} /\ tasks[t].state = "reading"
    /\ Resolved(values[tasks[t].ref])
    /\ tasks' = Finish(t, read(values[tasks[t].ref]))
    /\ UNCHANGED <<funcs, values, client>>

(***************************************************************************)
(* The Call arm of evaluate_impl (server.rs 44-62).                        *)
(***************************************************************************)
Arity(t) == Len(tasks[t].expr.params)

(* Variant: the call is sent as soon as some argument has resolved.        *)
JoinReadyAny(t) == Arity(t) = 0 \/ \E k \in 1..Arity(t) : Succeeded(Child(t, k))

(* Variant: the call is sent once the first argument has resolved, with    *)
(* whatever the others hold by then.                                       *)
JoinReadyFirst(t) == IF Arity(t) = 0 THEN TRUE ELSE Succeeded(Child(t, 1))

(* Variant: evaluations take turns: a Call's arguments are collected only   *)
(* when every future made before it, other than those awaiting it, has     *)
(* resolved.                                                               *)
JoinReadyInTurn(t) ==
    /\ \A k \in 1..Arity(t) : Succeeded(Child(t, k))
    /\ \A u \in Tasks :
          (u < t /\ tasks[u].state \notin {"done", "dropped"}) => Under(t, u)

(* try_join_all resolves with the parameter values once every argument has *)
(* resolved with a value (server.rs 46-52).                                *)
JoinReady(t) == \A k \in 1..Arity(t) : Succeeded(Child(t, k))

(* Variant: the parameter values are written in reverse.                   *)
ParamValuesReversed(t) ==
    [k \in 1..Arity(t) |-> tasks[Child(t, Arity(t) + 1 - k)].result.v]

(* server.rs 55-58: request.params[ii] = param_values[ii].                 *)
ParamValues(t) == [k \in 1..Arity(t) |-> tasks[Child(t, k)].result.v]

(* Variant: the argument's error is replaced by one of the Call's own.     *)
OwnFailure(t) == Failed("argument evaluation failed", 0, 0)

(* try_join_all polls its arguments in order and resolves with the first   *)
(* failure it finds.                                                       *)
FirstFailure(t) ==
    LET bad == {k \in 1..Arity(t) : FailedTask(Child(t, k))}
        k == CHOOSE i \in bad : \A j \in bad : i <= j
    IN  tasks[Child(t, k)].result.err

(* Variant: the arguments are all awaited before a failure among them is   *)
(* looked at.                                                              *)
JoinFailedAfterAll(t) ==
    /\ \A k \in 1..Arity(t) : Settled(Child(t, k))
    /\ \E k \in 1..Arity(t) : FailedTask(Child(t, k))

(* try_join_all resolves as soon as one argument has failed.               *)
JoinFailed(t) == \E k \in 1..Arity(t) : FailedTask(Child(t, k))

(* server.rs 52 with `?`: an argument failed; the Call fails with its      *)
(* error and the futures of the other arguments are dropped.               *)
JoinError(t) ==
    /\ tasks[t].kind = "Call" /\ tasks[t].state = "joining"
    /\ JoinFailed(t)
    /\ tasks' = Drop(Finish(t, Err(FirstFailure(t))), t)
    /\ UNCHANGED <<funcs, values, client>>

(* server.rs 52-60: all arguments resolved; func.call(param_values) is     *)
(* sent.                                                                   *)
JoinCall(t) ==
    /\ tasks[t].kind = "Call" /\ tasks[t].state = "joining"
    /\ ~JoinFailed(t)
    /\ JoinReady(t)
    /\ tasks' = [tasks EXCEPT ![t].state = "calling", ![t].called = TRUE,
                              ![t].args = ParamValues(t)]
    /\ UNCHANGED <<funcs, values, client>>

(* Variant: the second parameter is taken as the left operand.             *)
ApplySwapped(op, a, b) ==
    CASE op = "Add" -> FAdd(b, a)
      [] op = "Subtract" -> FSub(b, a)
      [] op = "Multiply" -> FMul(b, a)
      [] op = "Divide" -> FDiv(b, a)

(***************************************************************************)
(* Function.call, by the three implementers.  A call in flight is the task *)
(* that sent it, in state "calling".                                       *)
(***************************************************************************)
Apply(op, a, b) ==
    CASE op = "Add" -> FAdd(a, b)
      [] op = "Subtract" -> FSub(a, b)
      [] op = "Multiply" -> FMul(a, b)
      [] op = "Divide" -> FDiv(a, b)

OperatorArity == 2

(* server.rs 112-132 *)
OperatorImpl_call(op, params) ==
    IF Len(params) # OperatorArity
    THEN Err(Failed("Wrong number of parameters.", 0, 0))
    ELSE Ok(Apply(op, params[1], params[2]))

(* client.rs 9-25 *)
PowerFunction_call(params) ==
    IF Len(params) # 2
    THEN Err(Failed("Wrong number of parameters", 0, 0))
    ELSE Ok(Powf(params[1], params[2]))

(* Variant: surplus parameters are accepted and ignored.                   *)
ArityAtLeast(f, params) == Len(params) >= f.param_count

(* server.rs 88: the parameter count a FunctionImpl accepts.               *)
ArityOk(f, params) == Len(params) = f.param_count

(* Variant: the body sees the parameter list in scope where the call was   *)
(* written, when there is one.                                             *)
BodyParamsOfCaller(t) ==
    IF tasks[t].params.some THEN tasks[t].params ELSE Some(tasks[t].args)

(* server.rs 98: the parameter list the body is evaluated with.            *)
BodyParams(t) == Some(tasks[t].args)

Calling(t) == tasks[t].kind \in {"Call", "ClientCall"} /\ tasks[t].state = "calling"

Target(t) == funcs[tasks[t].function.id]

OperatorCall(t) ==
    /\ Calling(t)
    /\ tasks[t].function.cap = "server" /\ Target(t).kind = "Operator"
    /\ tasks' = Finish(t, OperatorImpl_call(Target(t).op, tasks[t].args))
    /\ UNCHANGED <<funcs, values, client>>

PowerCall(t) ==
    /\ Calling(t)
    /\ tasks[t].function.cap = "PowerFunction"
    /\ tasks' = Finish(t, PowerFunction_call(tasks[t].args))
    /\ UNCHANGED <<funcs, values, client>>

(* Variant: the futures of the body are made before the parameter count is *)
(* compared.                                                               *)
FunctionCallBodyFirst(t) ==
    /\ Calling(t)
    /\ tasks[t].function.cap = "server" /\ Target(t).kind = "UserDefined"
    /\ tasks' =
         IF ~ArityOk(Target(t), tasks[t].args)
         THEN evaluate_impl(Finish(t, Err(Failed("Expected parameters but got",
                                                 Target(t).param_count,
                                                 Len(tasks[t].args)))),
                            Target(t).body, BodyParams(t), t, 0)
         ELSE evaluate_impl([tasks EXCEPT ![t].state = "evaluating"], Target(t).body,
                            BodyParams(t), t, 0)
    /\ UNCHANGED <<funcs, values, client>>

(* server.rs 82-99: the arity check, then evaluate_impl on the body.       *)
FunctionCall(t) ==
    /\ Calling(t)
    /\ tasks[t].function.cap = "server" /\ Target(t).kind = "UserDefined"
    /\ tasks' =
         IF ~ArityOk(Target(t), tasks[t].args)
         THEN Finish(t, Err(Failed("Expected parameters but got",
                                   Target(t).param_count, Len(tasks[t].args))))
         ELSE evaluate_impl([tasks EXCEPT ![t].state = "evaluating"], Target(t).body,
                            BodyParams(t), t, 0)
    /\ UNCHANGED <<funcs, values, client>>

(* server.rs 100-103: the body's future has resolved.                      *)
FunctionDone(t) ==
    /\ tasks[t].kind \in {"Call", "ClientCall"} /\ tasks[t].state = "evaluating"
    /\ Settled(Child(t, 0))
    /\ tasks' = Finish(t, tasks[Child(t, 0)].result)
    /\ UNCHANGED <<funcs, values, client>>

(***************************************************************************)
(* Function.call and Value.read sent by the client itself.                 *)
(***************************************************************************)
call(f, params) ==
    /\ tasks' = Append(tasks, [Task("ClientCall", NoExpr, None, 0, 0, "calling", NoResult)
                                  EXCEPT !.function = f, !.args = params, !.called = TRUE])
    /\ UNCHANGED <<funcs, values>>

read_request(r) ==
    /\ tasks' = Append(tasks, [Task("Read", NoExpr, None, 0, 0, "reading", NoResult)
                                  EXCEPT !.ref = r])
    /\ UNCHANGED <<funcs, values>>

(***************************************************************************)
(* The client.  `client` is the rest of the client's program: the requests *)
(* it has still to send, in order.  Requests are pipelined: the next one   *)
(* may be sent at any time, except that "await" waits for every response.  *)
(* Fn(i) names the i-th Function the server created for this client and    *)
(* PreviousResult(r) the Value of its r-th evaluate.                       *)
(***************************************************************************)
Req(req) ==
    [req |-> req, op |-> "", param_count |-> 0, expression |-> NoExpr, function |-> NoFn,
     params |-> <<>>, ref |-> 0]

G(op) == [Req("getOperator") EXCEPT !.op = op]

D(param_count, body) ==
    [Req("defFunction") EXCEPT !.param_count = param_count, !.expression = body]

E(expression) == [Req("evaluate") EXCEPT !.expression = expression]

C(f, params) == [Req("call") EXCEPT !.function = f, !.params = params]

R(r) == [Req("read") EXCEPT !.ref = r]

Await == Req("await")

Lit(i) == Literal(Num(i))

(* client.rs 58-309: the five tests of try_main.                           *)
TryMain ==
    << E(Lit(123)), R(1), Await,
       G("Add"), G("Subtract"),
       E(Call(Fn(2), <<Call(Fn(1), <<Lit(123), Lit(45)>>), Lit(67)>>)), R(2), Await,
       G("Add"), G("Multiply"),
       E(Call(Fn(4), <<Lit(4), Lit(6)>>)),
       E(Call(Fn(3), <<PreviousResult(3), Lit(3)>>)), R(4),
       E(Call(Fn(3), <<PreviousResult(3), Lit(5)>>)), R(5), Await,
       G("Add"), G("Multiply"),
       D(2, Call(Fn(5), <<Call(Fn(6), <<Parameter(0), Lit(100)>>), Parameter(1)>>)),
       D(1, Call(Fn(6), <<Call(Fn(7), <<Parameter(0),
                                        Call(Fn(5), <<Parameter(0), Lit(1)>>)>>),
                          Lit(2)>>)),
       E(Call(Fn(7), <<Lit(12), Lit(34)>>)), R(6),
       E(Call(Fn(8), <<Lit(21)>>)), R(7), Await,
       G("Add"),
       E(Call(PowerFunction, <<Lit(2), Call(Fn(9), <<Lit(4), Lit(5)>>)>>)), R(8), Await >>

(* Other clients: families of short programs over small sets.              *)
LitVals == {Num(i) : i \in 0..MaxLit}

(* parameter lists one shorter to one longer than any function takes *)
ParamLists == UNION {[1..n -> LitVals] : n \in 0..(OperatorArity + 1)}

ShortLists == {ps \in ParamLists : Len(ps) <= OperatorArity}

ParamCounts == 0..OperatorArity

Leaves == {Literal(v) : v \in LitVals} \cup {Parameter(p) : p \in 0..(OperatorArity - 1)}

Lists(S) == {<<>>} \cup {<<a>> : a \in S} \cup {<<a, b>> : a, b \in S}

Calls(FR, S) == {Call(f, ps) : f \in FR, ps \in Lists(S)}

Nested(FR, S) ==
    {Call(f, <<c, a>>) : f \in FR, c \in Calls(FR, S), a \in S}
        \cup {Call(f, <<a, c>>) : f \in FR, c \in Calls(FR, S), a \in S}

(* an operator called directly *)
OperatorPrograms ==
    {<<G(op), C(Fn(1), ps)>> : op \in Operator, ps \in ParamLists}

(* an expression over an operator and the client's callback; the exponent *)
(* given to the callback is a leaf, or a sum, difference or product        *)
Exponent(e, op) ==
    \/ Len(e.params) < 2
    \/ e.params[2].tag # "Call"
    \/ e.params[2].function = Fn(1) /\ op # "Divide"

ExpressionsOver(op) ==
    Leaves \cup Calls({Fn(1), PowerFunction}, Leaves)
        \cup {e \in Nested({Fn(1), PowerFunction}, Leaves) :
                e.function = PowerFunction => Exponent(e, op)}

ExpressionPrograms ==
    UNION {{<<G(op), E(e), R(1)>> : e \in ExpressionsOver(op)} : op \in Operator}

(* a user-defined function called directly and through a Call *)
FunctionPrograms ==
    {<<G(op), D(pc, body), C(Fn(2), ps)>> :
        op \in {"Subtract", "Divide"}, pc \in ParamCounts,
        body \in Leaves \cup Calls({Fn(1), PowerFunction}, Leaves), ps \in ShortLists}
    \cup
    {<<G(op), D(pc, body), E(Call(Fn(2), as)), R(1)>> :
        op \in {"Subtract", "Divide"}, pc \in ParamCounts,
        body \in Leaves \cup Calls({Fn(1)}, Leaves), as \in Lists(Leaves)}

(* a user-defined function that calls another *)
ComposedPrograms ==
    {<<G(op), D(2, Call(Fn(1), <<Parameter(i), Parameter(j)>>)),
       D(1, Call(Fn(2), as)), C(Fn(3), <<x>>)>> :
        op \in {"Subtract", "Divide"}, i \in 0..1, j \in 0..1,
        as \in Lists(Leaves), x \in LitVals}

(* an operator and a user-defined function called with every parameter list *)
ArityPrograms ==
    {<<G(op), D(pc, Parameter(0)), C(Fn(1), ps), C(Fn(2), ps)>> :
        op \in Operator, pc \in ParamCounts, ps \in ParamLists}

(* two evaluates in flight together *)
ConcurrentPrograms ==
    {<<G(op), E(Call(Fn(1), as)), E(Call(Fn(1), bs)), R(1), R(2)>> :
        op \in {"Subtract", "Divide"}, as \in Lists(Leaves), bs \in Lists(Leaves)}

(* evaluates that use the promised Values of earlier ones *)
PipelinePrograms ==
    {<<G(op), E(e1), E(e2),
       E(Call(Fn(1), <<PreviousResult(1), PreviousResult(2)>>)), R(3), R(1)>> :
        op \in {"Subtract", "Divide"},
        e1 \in Leaves \cup {Call(Fn(1), <<Lit(2), Lit(1)>>)},
        e2 \in Leaves}

(* a user-defined function called twice *)
RepeatPrograms ==
    {<<G("Add"), D(1, body), C(Fn(2), ps), C(Fn(2), qs)>> :
        body \in {Parameter(1), Call(Fn(1), <<Parameter(0)>>),
                  Call(Fn(1), <<Parameter(0), Parameter(0)>>)},
        ps \in ShortLists, qs \in ShortLists}

(* a callback and an operator call as sibling arguments, with a second     *)
(* evaluate in flight                                                      *)
SiblingPrograms ==
    {<<G(op), E(Call(Fn(1), <<Call(PowerFunction, <<Literal(a), Literal(b)>>),
                              Call(Fn(1), <<Literal(a), Literal(b)>>)>>)),
       E(Call(Fn(1), <<Literal(b), Literal(a)>>)), R(2), R(1)>> :
        op \in {"Add", "Subtract"}, a \in LitVals, b \in LitVals}

(* a Call with an argument that fails and one that reads the Value of an   *)
(* evaluate waiting for the callback                                       *)
EarlyFailurePrograms ==
    {<<G("Add"), E(Call(PowerFunction, <<Literal(a), Literal(b)>>)),
       E(Call(Fn(1), as)), R(2)>> :
        a \in LitVals, b \in LitVals,
        as \in {<<PreviousResult(1), x>> : x \in Leaves}
                \cup {<<x, PreviousResult(1)>> : x \in Leaves}}

(* one expression, reading the Values of two earlier evaluates, evaluated  *)
(* twice                                                                   *)
InterleavingPrograms ==
    {<<G("Subtract"), E(e1), E(e2),
       E(Call(Fn(1), <<PreviousResult(1), PreviousResult(2)>>)),
       E(Call(Fn(1), <<PreviousResult(1), PreviousResult(2)>>)), R(3), R(4)>> :
        e1 \in Leaves, e2 \in Leaves}

(* a function whose body reads a Value and calls an operator, called with  *)
(* every parameter list                                                    *)
ReadingBodyPrograms ==
    {<<G("Add"), E(Literal(v)),
       D(pc, Call(Fn(1), <<PreviousResult(1), Parameter(0)>>)), C(Fn(2), ps)>> :
        v \in LitVals, pc \in ParamCounts, ps \in ParamLists}

Programs ==
    {TryMain} \cup OperatorPrograms \cup ExpressionPrograms \cup FunctionPrograms
        \cup ComposedPrograms \cup ArityPrograms \cup ConcurrentPrograms
        \cup PipelinePrograms \cup RepeatPrograms \cup SiblingPrograms
        \cup EarlyFailurePrograms \cup InterleavingPrograms \cup ReadingBodyPrograms

Sending(req) == client # <<>> /\ Head(client).req = req

GetOperator ==
    /\ Sending("getOperator")
    /\ get_operator(Head(client).op)
    /\ client' = Tail(client)

DefFunction ==
    /\ Sending("defFunction")
    /\ def_function(Head(client).param_count, Head(client).expression)
    /\ client' = Tail(client)

Evaluate ==
    /\ Sending("evaluate")
    /\ evaluate(Head(client).expression)
    /\ client' = Tail(client)

ClientCall ==
    /\ Sending("call")
    /\ call(Head(client).function, Head(client).params)
    /\ client' = Tail(client)

ClientRead ==
    /\ Sending("read")
    /\ read_request(Head(client).ref)
    /\ client' = Tail(client)

ClientAwait ==
    /\ Sending("await")
    /\ \A t \in Tasks : tasks[t].state \in {"done", "dropped"}
    /\ client' = Tail(client)
    /\ UNCHANGED <<funcs, values, tasks>>

Init ==
    /\ funcs = <<>>
    /\ values = <<>>
    /\ tasks = <<>>
    /\ client \in Programs

Next ==
    \/ GetOperator
    \/ DefFunction
    \/ Evaluate
    \/ ClientCall
    \/ ClientRead
    \/ ClientAwait
    \/ \E t \in Tasks : EvaluateDone(t)
    \/ \E t \in Tasks : ReadDone(t)
    \/ \E t \in Tasks : JoinError(t)
    \/ \E t \in Tasks : JoinCall(t)
    \/ \E t \in Tasks : OperatorCall(t)
    \/ \E t \in Tasks : PowerCall(t)
    \/ \E t \in Tasks : FunctionCall(t)
    \/ \E t \in Tasks : FunctionDone(t)

Spec == Init /\ [][Next]_vars

(* One step of the server: a future of the evaluator is polled, or one of   *)
(* the server's own capabilities answers.  The executor (LocalSet) polls   *)
(* every future that was woken; nothing makes the client answer a call of  *)
(* its callback or send its next request.                                  *)
ServerStep(t) ==
    \/ EvaluateDone(t)
    \/ ReadDone(t)
    \/ JoinError(t)
    \/ JoinCall(t)
    \/ OperatorCall(t)
    \/ FunctionCall(t)
    \/ FunctionDone(t)

FairSpec == Spec /\ WF_vars(\E t \in Tasks : ServerStep(t))

(* The client answers every call of its callback as well (client.rs 9-25   *)
(* returns at once).                                                       *)
AnsweredSpec == Spec /\ WF_vars(\E t \in Tasks : ServerStep(t) \/ PowerCall(t))

(***************************************************************************)
(* Properties.                                                             *)
(***************************************************************************)
CallTasks == {t \in Tasks : tasks[t].kind = "Call"}

Sent == {t \in Tasks : tasks[t].called}

(* C1: a Call's function is called only once every argument has resolved  *)
(* with a value, and the parameter list it is called with has one entry    *)
(* per argument, entry k holding the value argument k resolved with.       *)
C1_CallAfterAllArguments ==
    \A t \in CallTasks :
        tasks[t].called =>
            /\ Len(tasks[t].args) = Len(tasks[t].expr.params)
            /\ \A k \in 1..Len(tasks[t].expr.params) :
                  \E c \in Tasks :
                     /\ tasks[c].parent = t /\ tasks[c].slot = k
                     /\ tasks[c].expr = tasks[t].expr.params[k]
                     /\ tasks[c].state = "done" /\ tasks[c].result.ok
                     /\ tasks[t].args[k] = tasks[c].result.v

(* a call was sent whose second argument resolved before its first (a      *)
(* literal after a remote read) and whose two values differ                *)
C1_Witness ==
    \E t \in CallTasks :
        /\ tasks[t].called /\ Len(tasks[t].args) = 2
        /\ tasks[t].args[1] # tasks[t].args[2]
        /\ tasks[t].expr.params[1].tag = "PreviousResult"
        /\ tasks[t].expr.params[2].tag = "Literal"

FailedUnder(r) == {c \in Tasks : Under(c, r) /\ tasks[c].state = "done" /\ ~tasks[c].result.ok}

(* C2: a Call with a failed argument never calls its function and, once it *)
(* has resolved, has failed with the error of a failed argument; and a     *)
(* request that has answered with a failure below it (at any depth, also   *)
(* inside the body of a function a Call reached) has failed, with the      *)
(* error of one of those failures, and has produced no number.             *)
C2_FailurePropagates ==
    /\ \A t \in CallTasks :
          LET bad == {c \in Tasks : /\ tasks[c].parent = t /\ tasks[c].slot > 0
                                    /\ tasks[c].state = "done" /\ ~tasks[c].result.ok}
          IN  bad # {} =>
                /\ ~tasks[t].called
                /\ tasks[t].state \in {"joining", "done", "dropped"}
                /\ tasks[t].state = "done" =>
                      /\ ~tasks[t].result.ok
                      /\ \E c \in bad : tasks[t].result = tasks[c].result
    /\ \A r \in Tasks :
          (tasks[r].state = "done" /\ FailedUnder(r) # {}) =>
             /\ ~tasks[r].result.ok
             /\ \E c \in FailedUnder(r) : tasks[r].result = tasks[c].result
             /\ tasks[r].kind = "Evaluate" => values[tasks[r].ref].state = "broken"

(* an evaluate has failed with the error of an argument that failed inside *)
(* the body of a user-defined function its expression called               *)
C2_Witness ==
    \E r, t, b, c \in Tasks :
        /\ tasks[r].kind = "Evaluate" /\ tasks[r].state = "done" /\ ~tasks[r].result.ok
        /\ tasks[t].kind = "Call" /\ Under(t, r)
        /\ tasks[b].parent = t /\ tasks[b].slot = 0 /\ tasks[b].kind = "Call"
        /\ tasks[c].parent = b /\ tasks[c].slot > 0
        /\ tasks[c].state = "done" /\ ~tasks[c].result.ok
        /\ tasks[r].result = tasks[c].result

(* C3: Parameter(i) resolves with params[i] exactly when a parameter list  *)
(* is in scope and i is below its length, and fails with "bad parameter"   *)
(* otherwise; an evaluate's expression has no parameter list, and an       *)
(* argument of a Call has the list of the evaluation that holds the Call.  *)
C3_ParameterScope ==
    /\ \A t \in Tasks :
          tasks[t].kind = "Parameter" =>
             LET i == tasks[t].expr.p
                 ps == tasks[t].params
             IN  /\ tasks[t].state = "done"
                 /\ (ps.some /\ i < Len(ps.list)) => tasks[t].result = Ok(ps.list[i + 1])
                 /\ ~(ps.some /\ i < Len(ps.list)) =>
                       tasks[t].result = Err(Failed("bad parameter: ", i, 0))
    /\ \A t \in Tasks :
          /\ (tasks[t].parent # 0 /\ tasks[tasks[t].parent].kind = "Evaluate") =>
                ~tasks[t].params.some
          /\ tasks[t].slot > 0 => tasks[t].params = tasks[tasks[t].parent].params

(* a Parameter that is an argument of a Call resolved with the value the   *)
(* enclosing list holds at its index, which is not the value the list      *)
(* built for the called function holds there                               *)
C3_Witness ==
    \E t \in Tasks :
        /\ tasks[t].kind = "Parameter" /\ tasks[t].slot > 0
        /\ tasks[t].state = "done" /\ tasks[t].result.ok
        /\ LET u == tasks[t].parent
               i == tasks[t].expr.p
           IN  /\ tasks[u].called /\ i < Len(tasks[u].args)
               /\ tasks[u].args[i + 1] # tasks[t].result.v

IsOperator(t) == tasks[t].function.cap = "server" /\ funcs[tasks[t].function.id].kind = "Operator"

IsUserDefined(t) ==
    tasks[t].function.cap = "server" /\ funcs[tasks[t].function.id].kind = "UserDefined"

WrongCount(t) ==
    \/ IsOperator(t) /\ Len(tasks[t].args) # 2
    \/ IsUserDefined(t) /\ Len(tasks[t].args) # funcs[tasks[t].function.id].param_count

(* C4: a call sent to an Operator with other than 2 parameters, or to a    *)
(* user-defined function with other than param_count parameters, never     *)
(* starts evaluating a body and, once answered, has failed with the arity  *)
(* error of that function.                                                 *)
C4_ArityChecked ==
    \A t \in Sent :
        WrongCount(t) =>
            /\ tasks[t].state # "evaluating"
            /\ ~\E b \in Tasks : tasks[b].parent = t /\ tasks[b].slot = 0
            /\ tasks[t].state = "done" =>
                  /\ ~tasks[t].result.ok
                  /\ IsOperator(t) =>
                        tasks[t].result.err = Failed("Wrong number of parameters.", 0, 0)
                  /\ IsUserDefined(t) =>
                        tasks[t].result.err =
                            Failed("Expected parameters but got",
                                   funcs[tasks[t].function.id].param_count,
                                   Len(tasks[t].args))

(* an Operator and a user-defined function have each answered a call with  *)
(* too many parameters with a failure                                      *)
C4_Witness ==
    \E t, u \in Sent :
        /\ IsOperator(t) /\ Len(tasks[t].args) > 2
        /\ tasks[t].state = "done" /\ ~tasks[t].result.ok
        /\ IsUserDefined(u) /\ Len(tasks[u].args) > funcs[tasks[u].function.id].param_count
        /\ tasks[u].state = "done" /\ ~tasks[u].result.ok

EvaluateTasks == {t \in Tasks : tasks[t].kind = "Evaluate"}

Root(t) == CHOOSE c \in Tasks : tasks[c].parent = t /\ tasks[c].slot = 0

(* C5: the Value an evaluate promised exists exactly when the evaluate has *)
(* answered and the evaluation of its expression succeeded, and then holds *)
(* the number that evaluation produced; when the evaluation failed the     *)
(* evaluate fails with its error and no Value exists.                      *)
C5_ValueIffSuccess ==
    /\ Len(values) = Cardinality(EvaluateTasks)
    /\ \A t \in EvaluateTasks :
          LET v == values[tasks[t].ref]
              e == tasks[Root(t)]
          IN  /\ ~e.params.some /\ e.expr = tasks[t].expr
              /\ v.state = "resolved" <=>
                    (tasks[t].state = "done" /\ e.state = "done" /\ e.result.ok)
              /\ v.state = "resolved" => (v.value = e.result.v /\ tasks[t].result = Ok(v.value))
              /\ (tasks[t].state = "done" /\ ~e.result.ok) =>
                    (tasks[t].result = e.result /\ v.state = "broken" /\ v.err = e.result.err)
              /\ tasks[t].state # "done" => v.state = "promised"

(* one evaluate of a Call has produced a Value and another has failed      *)
C5_Witness ==
    \E t, u \in EvaluateTasks :
        /\ tasks[t].expr.tag = "Call" /\ values[tasks[t].ref].state = "resolved"
        /\ tasks[u].state = "done" /\ ~tasks[u].result.ok
        /\ values[tasks[u].ref].state = "broken"

(***************************************************************************)
(* What an expression denotes: the number it evaluates to with a parameter *)
(* list, the Functions and the Values as they are, or NoResult if its      *)
(* evaluation fails.                                                       *)
(***************************************************************************)
Arith(op, a, b) ==
    CASE op = "Add" -> FAdd(a, b)
      [] op = "Subtract" -> FAdd(a, F(-b.n, b.d))
      [] op = "Multiply" -> Norm(a.n * b.n, a.d * b.d)
      [] op = "Divide" -> Norm(a.n * b.d, a.d * b.n)

RECURSIVE Den(_, _)
RECURSIVE DenCall(_, _)

Den(e, ps) ==
    CASE e.tag = "Literal" -> Ok(e.v)
      [] e.tag = "Parameter" ->
           IF ps.some /\ e.p < Len(ps.list) THEN Ok(ps.list[e.p + 1]) ELSE NoResult
      [] e.tag = "PreviousResult" ->
           IF values[e.ref].state = "resolved" THEN Ok(values[e.ref].value) ELSE NoResult
      [] e.tag = "Call" ->
           LET rs == [k \in 1..Len(e.params) |-> Den(e.params[k], ps)]
           IN  IF \E k \in 1..Len(e.params) : ~rs[k].ok THEN NoResult
               ELSE DenCall(e.function, [k \in 1..Len(e.params) |-> rs[k].v])

DenCall(f, as) ==
    IF f.cap = "PowerFunction"
    THEN (IF Len(as) = 2 THEN Ok(Powf(as[1], as[2])) ELSE NoResult)
    ELSE LET g == funcs[f.id]
         IN  IF g.kind = "Operator"
             THEN (IF Len(as) = 2 THEN Ok(Arith(g.op, as[1], as[2])) ELSE NoResult)
             ELSE IF Len(as) = g.param_count THEN Den(g.body, Some(as)) ELSE NoResult

Same(result, d) == result.ok = d.ok /\ (d.ok => result.v = d.v)

RECURSIVE RequestOf(_)
RequestOf(t) == IF tasks[t].parent = 0 THEN t ELSE RequestOf(tasks[t].parent)

(* the client is the one of client.rs *)
TryMainRuns == Len(tasks) > 0 /\ tasks[1].kind = "Evaluate" /\ tasks[1].expr = Lit(123)

ReadsOf(r) == {t \in Tasks : tasks[t].kind = "Read" /\ tasks[t].ref = r}

Answered(t) == tasks[t].state = "done"

C6_Step ==
    /\ Len(funcs') >= Len(funcs) /\ \A i \in DOMAIN funcs : funcs'[i] = funcs[i]
    /\ Len(values') >= Len(values)
    /\ \A v \in DOMAIN values : values[v].state # "promised" => values'[v] = values[v]
    /\ Len(tasks') >= Len(tasks)
    /\ \A t \in Tasks : Answered(t) => tasks'[t] = tasks[t]
    /\ \A t, u \in Tasks :
          (tasks'[t] # tasks[t] /\ tasks'[u] # tasks[u]) => RequestOf(t) = RequestOf(u)
    /\ \A v \in DOMAIN values :
          values'[v] # values[v] =>
             \A t \in Tasks : tasks'[t] # tasks[t] => (tasks[t].kind = "Evaluate" /\ tasks[t].ref = v)

C6_Outcome ==
    \A r \in Requests :
        Answered(r) =>
            CASE tasks[r].kind = "Evaluate" -> Same(tasks[r].result, Den(tasks[r].expr, None))
              [] tasks[r].kind = "ClientCall" ->
                    Same(tasks[r].result, DenCall(tasks[r].function, tasks[r].args))
              [] tasks[r].kind = "Read" ->
                    Same(tasks[r].result, Den(PreviousResult(tasks[r].ref), None))

(* C6: no step changes a Function, a Value that exists or an answer that   *)
(* was given, and a step changes the futures of one request only (so a     *)
(* request that fails leaves the others as they were); and each answer is  *)
(* what the request's own arguments denote with the capabilities they      *)
(* reference, whatever else was requested.                                 *)
C6_RequestsIndependent == [][C6_Step]_vars /\ []C6_Outcome

(* of two evaluates that were in flight together, the first has failed and *)
(* the second has answered with the number its expression denotes          *)
C6_Witness ==
    \E r, q \in EvaluateTasks :
        /\ r < q /\ tasks[q].expr.tag = "Call"
        /\ Answered(r) /\ ~tasks[r].result.ok
        /\ Answered(q) /\ tasks[q].result.ok
        /\ values[tasks[r].ref].state = "broken" /\ values[tasks[q].ref].state = "resolved"

(* C7: a call of a user-defined function with param_count parameters       *)
(* evaluates the captured body with exactly those parameters as its        *)
(* parameter list and answers what the body denotes with them; with the    *)
(* functions of client.rs, f(12,34) reads 1234 and g(21) reads 4244.       *)
C7_UserDefinedCall ==
    /\ \A t \in Sent :
          (IsUserDefined(t) /\ Len(tasks[t].args) = funcs[tasks[t].function.id].param_count) =>
             /\ \A b \in Tasks :
                   (tasks[b].parent = t /\ tasks[b].slot = 0) =>
                      /\ tasks[b].expr = funcs[tasks[t].function.id].body
                      /\ tasks[b].params = Some(tasks[t].args)
             /\ Answered(t) =>
                   Same(tasks[t].result,
                        Den(funcs[tasks[t].function.id].body, Some(tasks[t].args)))
    /\ TryMainRuns =>
          /\ \A t \in ReadsOf(6) : Answered(t) => tasks[t].result = Ok(Num(1234))
          /\ \A t \in ReadsOf(7) : Answered(t) => tasks[t].result = Ok(Num(4244))

(* g(21) has read 4244, and inside g's body f was called with (21, 22),    *)
(* not with g's own parameter list (21), and answered 2122                 *)
C7_Witness ==
    /\ \E t \in ReadsOf(7) : tasks[t].result = Ok(Num(4244))
    /\ \E t \in Sent :
          /\ IsUserDefined(t)
          /\ tasks[t].params = Some(<<Num(21)>>)
          /\ tasks[t].args = <<Num(21), Num(22)>>
          /\ tasks[t].result = Ok(Num(2122))

EvaluateOf(r) == CHOOSE e \in EvaluateTasks : tasks[e].ref = r

(* C8: a read of a promised Value, sent by the evaluator for a             *)
(* PreviousResult or by the client, is answered only after the evaluate    *)
(* that promised it, and with that evaluate's result; in client.rs the two *)
(* evaluates that use 4 * 6 read 27 and 29.                                *)
C8_Pipelining ==
    /\ \A t \in Tasks :
          (tasks[t].kind \in {"PreviousResult", "Read"} /\ Answered(t)) =>
             /\ Answered(EvaluateOf(tasks[t].ref))
             /\ tasks[t].result = tasks[EvaluateOf(tasks[t].ref)].result
    /\ TryMainRuns =>
          /\ \A t \in ReadsOf(4) : Answered(t) => tasks[t].result = Ok(Num(27))
          /\ \A t \in ReadsOf(5) : Answered(t) => tasks[t].result = Ok(Num(29))

(* the second dependent evaluate has read 29 while the read of the first   *)
(* is still waiting, and the client never read the referenced Value        *)
C8_Witness ==
    /\ TryMainRuns
    /\ \E t \in ReadsOf(5) : tasks[t].result = Ok(Num(29))
    /\ \E t \in ReadsOf(4) : tasks[t].state = "reading"
    /\ ReadsOf(3) = {}

(* C9: an Operator called with two parameters a, b answers a op b, a the   *)
(* left operand, never a failure; a quotient by 0 is infinite or NaN; and  *)
(* in client.rs 123 + 45 - 67 reads 101.                                   *)
C9_Operators ==
    /\ \A t \in Sent :
          (IsOperator(t) /\ Len(tasks[t].args) = 2 /\ Answered(t)) =>
             LET op == funcs[tasks[t].function.id].op
                 a == tasks[t].args[1]
                 b == tasks[t].args[2]
             IN  /\ tasks[t].result = Ok(Arith(op, a, b))
                 /\ (op = "Divide" /\ b = Num(0)) => tasks[t].result.v.d = 0
                 /\ (op = "Subtract" /\ a = Num(2) /\ b = Num(1)) => tasks[t].result.v = Num(1)
                 /\ (op = "Divide" /\ a = Num(1) /\ b = Num(2)) => tasks[t].result.v = F(1, 2)
                 /\ (op = "Divide" /\ a = Num(2) /\ b = Num(0)) => tasks[t].result.v = F(1, 0)
                 /\ (op = "Divide" /\ a = Num(0) /\ b = Num(0)) => tasks[t].result.v = NaN
    /\ TryMainRuns => \A t \in ReadsOf(2) : Answered(t) => tasks[t].result = Ok(Num(101))

(* Divide has answered 2 / 0 with +infinity *)
C9_Witness ==
    \E t \in Sent :
        /\ IsOperator(t) /\ funcs[tasks[t].function.id].op = "Divide"
        /\ tasks[t].args = <<Num(2), Num(0)>>
        /\ tasks[t].result = Ok(F(1, 0))

PowerCalls == {t \in CallTasks : tasks[t].function = PowerFunction}

(* C10: a Call of the client's callback is sent the values of its          *)
(* arguments in order, like any other; what the callback answers, a number *)
(* or its failure, is the Call's result, is the parameter the enclosing    *)
(* Call passes on, and is the answer of an evaluate whose expression the   *)
(* Call is; in client.rs pow(2, add(4, 5)) reads 512.                      *)
C10_Callback ==
    /\ \A t \in PowerCalls :
          (tasks[t].called /\ Answered(t)) =>
             /\ Len(tasks[t].expr.params) = 2 =>
                   \E a, b \in Tasks :
                      /\ tasks[a].parent = t /\ tasks[a].slot = 1
                      /\ tasks[b].parent = t /\ tasks[b].slot = 2
                      /\ tasks[t].result = Ok(Powf(tasks[a].result.v, tasks[b].result.v))
             /\ Len(tasks[t].expr.params) # 2 =>
                   tasks[t].result = Err(Failed("Wrong number of parameters", 0, 0))
             /\ LET u == tasks[t].parent
                IN  /\ (tasks[t].slot > 0 /\ tasks[u].called) =>
                          tasks[u].args[tasks[t].slot] = tasks[t].result.v
                    /\ (tasks[u].kind = "Evaluate" /\ Answered(u)) =>
                          tasks[u].result = tasks[t].result
    /\ TryMainRuns => \A t \in ReadsOf(8) : Answered(t) => tasks[t].result = Ok(Num(512))

(* pow(2, add(4, 5)) has read 512 *)
C10_Witness ==
    /\ TryMainRuns
    /\ \E t \in ReadsOf(8) : tasks[t].result = Ok(Num(512))
    /\ \E t \in PowerCalls :
          /\ tasks[t].args = <<Num(2), Num(9)>>
          /\ tasks[t].expr.params[2].tag = "Call"

RECURSIVE Defective(_, _)
(* the body has a Parameter at or beyond param_count, or a Call with a      *)
(* number of arguments its function does not take                          *)
Defective(e, param_count) ==
    CASE e.tag = "Parameter" -> e.p >= param_count
      [] e.tag = "Call" ->
           \/ \E k \in 1..Len(e.params) : Defective(e.params[k], param_count)
           \/ IF e.function.cap = "server" /\ funcs[e.function.id].kind = "UserDefined"
              THEN Len(e.params) # funcs[e.function.id].param_count
              ELSE Len(e.params) # 2
      [] OTHER -> FALSE

C11_Step ==
    (Sending("defFunction") /\ client' # client) =>
        /\ funcs' = Append(funcs, FunctionImpl(Head(client).param_count,
                                               Head(client).expression))
        /\ tasks' = tasks /\ values' = values

C11_Calls ==
    /\ Sending("defFunction") => ENABLED DefFunction
    /\ \A t \in Sent :
          (/\ IsUserDefined(t) /\ Answered(t)
           /\ Defective(funcs[tasks[t].function.id].body,
                        funcs[tasks[t].function.id].param_count)) =>
             ~tasks[t].result.ok

(* C11: every defFunction request is accepted and stores the param_count   *)
(* and the body it was sent, whatever they are, without evaluating         *)
(* anything; and every call of a function whose body has a Parameter at or *)
(* beyond param_count, or a Call of the wrong arity, is answered with a    *)
(* failure.                                                                *)
C11_NoValidation == [][C11_Step]_vars /\ []C11_Calls

(* a function of one parameter whose body is Parameter(1) exists and two   *)
(* calls of it with one parameter each have failed with "bad parameter"    *)
C11_Witness ==
    \E t, u \in Sent :
        /\ t # u /\ tasks[t].function = tasks[u].function /\ IsUserDefined(t)
        /\ funcs[tasks[t].function.id] = FunctionImpl(1, Parameter(1))
        /\ Len(tasks[t].args) = 1 /\ Len(tasks[u].args) = 1
        /\ tasks[t].result = Err(Failed("bad parameter: ", 1, 0))
        /\ tasks[u].result = Err(Failed("bad parameter: ", 1, 0))

ReadTasks == {t \in Tasks : tasks[t].kind \in {"PreviousResult", "Read"}}

C12_Step ==
    \A v \in DOMAIN values : values[v].state = "resolved" => values'[v] = values[v]

C12_Reads ==
    /\ \A t \in ReadTasks :
          (Answered(t) /\ values[tasks[t].ref].state = "resolved") =>
             tasks[t].result = Ok(values[tasks[t].ref].value)
    /\ \A t, u \in ReadTasks :
          (Answered(t) /\ Answered(u) /\ tasks[t].ref = tasks[u].ref) =>
             tasks[t].result = tasks[u].result
    /\ \A e \in EvaluateTasks :
          tasks[e].expr.tag = "Literal" =>
             \A t \in ReadTasks :
                (Answered(t) /\ tasks[t].ref = tasks[e].ref) =>
                   tasks[t].result = Ok(tasks[e].expr.v)

(* C12: the number a Value holds never changes once the Value exists;      *)
(* every read of it, by the client or by the evaluator for a               *)
(* PreviousResult, answers that number, so all reads of one Value answer   *)
(* alike; and a read of the Value of evaluate(Literal(v)) answers v.       *)
C12_ValueFixed == [][C12_Step]_vars /\ []C12_Reads

(* in client.rs the literal 123 was read back, and the Value of 4 * 6 was  *)
(* read by two evaluations, both of which got 24                           *)
C12_Witness ==
    /\ TryMainRuns
    /\ \E t \in ReadsOf(1) : tasks[t].result = Ok(Num(123))
    /\ \E t, u \in ReadTasks :
          /\ t # u /\ tasks[t].ref = 3 /\ tasks[u].ref = 3
          /\ tasks[t].kind = "PreviousResult" /\ tasks[u].kind = "PreviousResult"
          /\ tasks[t].result = Ok(Num(24)) /\ tasks[u].result = Ok(Num(24))

UserDefinedCalls == {t \in Sent : IsUserDefined(t)}

C13_Step ==
    /\ \A i \in DOMAIN funcs : i \in DOMAIN funcs' /\ funcs'[i] = funcs[i]
    /\ (Sending("defFunction") /\ client' # client) =>
          /\ Len(funcs') = Len(funcs) + 1
          /\ funcs'[Len(funcs')].body = Head(client).expression
    /\ \A t \in UserDefinedCalls :
          (tasks[t].state = "calling" /\ tasks'[t].state = "evaluating") =>
             /\ Len(tasks') > Len(tasks)
             /\ tasks'[Len(tasks) + 1].parent = t /\ tasks'[Len(tasks) + 1].slot = 0
             /\ tasks'[Len(tasks) + 1].expr = funcs[tasks[t].function.id].body

C13_Calls ==
    \A t \in UserDefinedCalls :
        LET f == funcs[tasks[t].function.id]
        IN  (Answered(t) /\ Len(tasks[t].args) = f.param_count) =>
               Same(tasks[t].result, Den(f.body, Some(tasks[t].args)))

(* C13: the body a function was defined with is the body defFunction was   *)
(* sent; no later request of the definer, another defFunction with a       *)
(* different tree included, changes it; and every call evaluates that body *)
(* and answers what it denotes.                                            *)
C13_BodyCaptured == [][C13_Step]_vars /\ []C13_Calls

(* in client.rs f(12, 34), called after g was defined from a different     *)
(* tree, answered 1234, which is not what g's tree denotes for (12, 34)    *)
C13_Witness ==
    /\ TryMainRuns /\ Len(funcs) >= 8
    /\ funcs[8].body # funcs[7].body
    /\ \E t \in UserDefinedCalls :
          /\ tasks[t].function = Fn(7) /\ tasks[t].args = <<Num(12), Num(34)>>
          /\ tasks[t].result = Ok(Num(1234))
          /\ ~Same(tasks[t].result, Den(funcs[8].body, Some(tasks[t].args)))

Pending(t) == tasks[t].state \notin {"done", "dropped"}

RECURSIVE Suspended(_)
(* t cannot resolve before the client answers a call of its callback: t is *)
(* that call, or awaits a future that is suspended so                      *)
Suspended(t) ==
    /\ Pending(t)
    /\ CASE tasks[t].state = "calling" -> tasks[t].function = PowerFunction
          [] tasks[t].state = "joining" ->
               \E k \in 1..Arity(t) : Suspended(Child(t, k))
          [] tasks[t].state \in {"awaiting", "evaluating"} -> Suspended(Child(t, 0))
          [] tasks[t].state = "reading" -> Suspended(EvaluateOf(tasks[t].ref))

Settling == \A t \in Tasks : Pending(t) => Suspended(t)

(* C14: however long the client leaves calls of its callback unanswered,   *)
(* every evaluation that does not await such a call, be it a sibling       *)
(* argument of one that does or another request, resolves.                 *)
C14_SiblingsProgress == <>[]Settling

(* a call of the callback is unanswered, the Call that is its sibling      *)
(* argument has resolved, and an evaluate sent later has answered and was  *)
(* read                                                                    *)
C14_Witness ==
    \E p, s, r \in Tasks :
        /\ tasks[p].state = "calling" /\ tasks[p].function = PowerFunction
        /\ tasks[s].kind = "Call" /\ s # p
        /\ tasks[s].parent = tasks[p].parent /\ tasks[s].slot > 0 /\ tasks[p].slot > 0
        /\ Succeeded(s)
        /\ tasks[r].kind = "Evaluate" /\ r > p /\ Succeeded(r)
        /\ \E t \in ReadsOf(tasks[r].ref) : Succeeded(t)

RECURSIVE FnRefs(_)
(* the server's functions an expression calls *)
FnRefs(e) ==
    IF e.tag # "Call" THEN {}
    ELSE (IF e.function.cap = "server" THEN {e.function.id} ELSE {})
            \cup UNION {FnRefs(e.params[k]) : k \in 1..Len(e.params)}

(* u was made by the evaluation of the body of the function t called *)
InBodyOf(u, t) ==
    \E b \in Tasks : tasks[b].parent = t /\ tasks[b].slot = 0 /\ (u = b \/ Under(u, b))

NoSelfCall ==
    /\ \A i \in DOMAIN funcs : \A j \in FnRefs(funcs[i].body) : j < i
    /\ \A t, u \in UserDefinedCalls :
          InBodyOf(u, t) => tasks[u].function.id < tasks[t].function.id

Quiet == \A t \in Tasks : ~Pending(t)

(* C15: the body of a function calls only functions that were created      *)
(* before it, so no call made while a function's body is evaluated, at any *)
(* depth, is a call of that function; and when every read and call is      *)
(* answered, every evaluation resolves.                                    *)
C15_NoRecursion == []NoSelfCall /\ <>[]Quiet

(* in client.rs g's body called f, f and g returned, and nothing is left   *)
(* to evaluate                                                             *)
C15_Witness ==
    /\ TryMainRuns /\ client = <<>> /\ Quiet
    /\ \E t, u \in UserDefinedCalls :
          /\ tasks[t].function = Fn(8) /\ tasks[u].function = Fn(7)
          /\ InBodyOf(u, t) /\ Succeeded(t) /\ Succeeded(u)

Arguments(t) == {c \in Tasks : tasks[c].parent = t /\ tasks[c].slot > 0}

C16_Step ==
    /\ \A c \in Tasks : tasks[c].state = "dropped" => tasks'[c] = tasks[c]
    /\ \A t \in CallTasks :
          (tasks[t].state = "joining" /\ \E c \in Arguments(t) : FailedTask(c)) =>
             /\ tasks'[t].state \in {"joining", "done", "dropped"}
             /\ tasks'[t].state = "done" =>
                   /\ ~tasks'[t].result.ok
                   /\ \A c \in Tasks :
                         (Under(c, t) /\ Pending(c)) => tasks'[c].state = "dropped"

C16_Failed ==
    \A t \in CallTasks :
        (\E c \in Arguments(t) : FailedTask(c)) =>
            \/ tasks[t].state = "dropped"
            \/ /\ Answered(t) /\ ~tasks[t].result.ok
               /\ \A c \in Arguments(t) : ~Pending(c)

(* C16: a Call with a failed argument resolves with a failure even if the  *)
(* reads and calls its other arguments wait for are never answered; the    *)
(* futures of those arguments are dropped when it does, and a dropped      *)
(* future never resolves or changes anything.                              *)
C16_EarlyFailure == [][C16_Step]_vars /\ <>[]C16_Failed

(* a Call failed with "bad parameter" while its other argument was reading *)
(* the Value of an evaluate that still waits for the callback; that read   *)
(* was dropped and the client has read the failure                         *)
C16_Witness ==
    \E t, c, p \in Tasks :
        /\ tasks[t].kind = "Call" /\ Answered(t)
        /\ tasks[t].result = Err(Failed("bad parameter: ", 0, 0))
        /\ c \in Arguments(t) /\ tasks[c].kind = "PreviousResult"
        /\ tasks[c].state = "dropped" /\ values[tasks[c].ref].state = "promised"
        /\ tasks[p].state = "calling" /\ tasks[p].function = PowerFunction
        /\ \E r \in Tasks : tasks[r].kind = "Read" /\ FailedTask(r)

RECURSIVE CallbackFree(_)
(* e is made of Literal, Parameter, PreviousResult and Calls of Operators   *)
(* and user-defined functions whose bodies are so made                     *)
CallbackFree(e) ==
    IF e.tag # "Call" THEN TRUE
    ELSE /\ e.function.cap = "server"
         /\ \A k \in 1..Len(e.params) : CallbackFree(e.params[k])
         /\ funcs[e.function.id].kind = "UserDefined" =>
               CallbackFree(funcs[e.function.id].body)

Evaluations ==
    {t \in Tasks : tasks[t].kind \in {"Literal", "Parameter", "PreviousResult", "Call"}}

(* C17: an evaluation of an expression without callbacks, once resolved,   *)
(* has the outcome the expression denotes with its parameter list, the     *)
(* number or the fact of failing, whenever its arguments and the answers   *)
(* to its reads and calls arrived; so two evaluations of one expression    *)
(* with one parameter list both fail or both yield the same number.        *)
C17_InterleavingFree ==
    /\ \A t \in Evaluations :
          (Answered(t) /\ CallbackFree(tasks[t].expr)) =>
             Same(tasks[t].result, Den(tasks[t].expr, tasks[t].params))
    /\ \A t, u \in Evaluations :
          (/\ Answered(t) /\ Answered(u) /\ CallbackFree(tasks[t].expr)
           /\ tasks[t].expr = tasks[u].expr /\ tasks[t].params = tasks[u].params) =>
             /\ tasks[t].result.ok = tasks[u].result.ok
             /\ tasks[t].result.ok => tasks[t].result.v = tasks[u].result.v

(* two evaluations of one Call saw their arguments fail in different       *)
(* orders: both failed, each with the error of another argument            *)
C17_Witness ==
    \E t, u \in CallTasks :
        /\ t # u /\ tasks[t].expr = tasks[u].expr /\ tasks[t].params = tasks[u].params
        /\ CallbackFree(tasks[t].expr)
        /\ FailedTask(t) /\ FailedTask(u)
        /\ tasks[t].result.err # tasks[u].result.err

C18_Step ==
    \A t \in UserDefinedCalls :
        (WrongCount(t) /\ tasks[t].state = "calling" /\ tasks'[t] # tasks[t]) =>
            /\ Len(tasks') = Len(tasks)
            /\ \A u \in Tasks : u # t => tasks'[u] = tasks[u]
            /\ values' = values /\ funcs' = funcs
            /\ tasks'[t].state = "done"
            /\ tasks'[t].result =
                  Err(Failed("Expected parameters but got",
                             funcs[tasks[t].function.id].param_count, Len(tasks[t].args)))

C18_NoBody ==
    \A t \in UserDefinedCalls : WrongCount(t) => ~\E c \in Tasks : InBodyOf(c, t)

(* C18: the step that answers a call of a user-defined function with the   *)
(* wrong number of parameters makes no future (no node of the body is      *)
(* evaluated, no read is sent, no function is called), changes nothing but *)
(* the call, and answers it with the arity error; at no time is there a    *)
(* future of that call's body.                                             *)
C18_ArityBeforeBody == [][C18_Step]_vars /\ []C18_NoBody

(* a function whose body reads a Value and calls an operator answered a    *)
(* call with too few parameters with the arity error: no read of the Value *)
(* was sent and the call is the only one there is                          *)
C18_Witness ==
    \E t \in UserDefinedCalls :
        /\ Len(tasks[t].args) < funcs[tasks[t].function.id].param_count
        /\ funcs[tasks[t].function.id].body =
              Call(Fn(1), <<PreviousResult(1), Parameter(0)>>)
        /\ Answered(t) /\ tasks[t].result.err.description = "Expected parameters but got"
        /\ ReadTasks = {} /\ Sent = {t}

====
